---- MODULE Spec2Model ----
(***************************************************************************)
(* Layout of math vectors, matrices and case distinctions                  *)
(* (crates/typst-library/src/math/matrix.rs).                              *)
(*                                                                         *)
(* Lengths (Abs) are integers in abstract units.  Em values are counted in *)
(* half ems, ratios in tenths, so that ROW_GAP = COL_GAP = 0.5em = 1 and   *)
(* VERTICAL_PADDING = 0.1 = 1.  Quantities the code divides are kept       *)
(* multiplied out and carry the factor in their name (baseline_x2,         *)
(* target_x10).                                                            *)
(***************************************************************************)
EXTENDS Integers, Sequences, FiniteSets, TLC

VARIABLES
    pc,           \* "idle" | "vec_body" | "mat_body" | "done"
    elem,         \* the element whose layout_math is running
    style,        \* ctx.style
    style_stack,  \* ctx.style_stack (styles saved by ctx.style)
    fragments,    \* ctx.fragments: the caller's output stream
    gaps,         \* the locals gap / row_gap, col_gap
    flat,         \* layout_vec_body: the local `flat`
    cols,         \* layout_mat_body: the local `cols`
    heights,      \* layout_mat_body: the local `heights`
    laid,         \* history: the calls of ctx.layout_row, in order
    result,       \* what layout_math returned
    entry,        \* history: style, style_stack, fragments at the call
    args,         \* MatElem construction: the positional arguments
    rows,         \* MatElem construction: the parsed `rows` field
    built         \* MatElem construction: whether the parse has run

vars == <<pc, elem, style, style_stack, fragments, gaps, flat, cols, heights,
          laid, result, entry, args, rows, built>>

layoutVars == <<pc, elem, style, style_stack, fragments, gaps, flat, cols,
                heights, laid, result, entry>>

ctorVars == <<args, rows, built>>

----------------------------------------------------------------------------
(* Bounds *)

MaxArgs == 2

MaxRowLen == 2

MaxLen == 3

----------------------------------------------------------------------------
(* Program constants *)

ROW_GAP == 1

COL_GAP == 1

VERTICAL_PADDING == 1

----------------------------------------------------------------------------
(* Small helpers *)

Max(a, b) == IF a >= b THEN a ELSE b

RECURSIVE SumSeq(_)
SumSeq(s) == IF s = <<>> THEN 0 ELSE Head(s) + SumSeq(Tail(s))

RECURSIVE MaxOf(_, _)
\* fold of Abs::set_max over s, starting from init
MaxOf(init, s) == IF s = <<>> THEN init ELSE MaxOf(Max(init, Head(s)), Tail(s))

SeqsUpTo(S, n) == UNION {[1..k -> S] : k \in 0..n}

----------------------------------------------------------------------------
(* Values, content and the MatElem `rows` parser *)

None == "none"

\* scalar values: Value::None and two integers
Scalars == {"none", "1", "2"}

ScalarValue(s) == [isArray |-> FALSE, s |-> s, items |-> <<>>]

ArrayValue(items) == [isArray |-> TRUE, s |-> None, items |-> items]

\* Content::empty()
Empty == [text |-> ""]

\* Value::display: none displays as empty content, an integer as its text
display(s) == IF s = "none" THEN Empty ELSE [text |-> s]

\* v.cast::<Array>(): an array casts to itself, a scalar to a one-element array
castArray(v) == IF v.isArray THEN v.items ELSE <<v.s>>

\* values.iter().any(|spanned| matches!(spanned.v, Value::Array(_)))
AnyArray_all(values) == \A i \in 1..Len(values) : values[i].isArray

AnyArray(values) == \E i \in 1..Len(values) : values[i].isArray

\* the first branch: one row per argument
RowOf(v) == [k \in 1..Len(castArray(v)) |-> display(castArray(v)[k])]

ArrayRows(values) == [i \in 1..Len(values) |-> RowOf(values[i])]

\* width = width.max(row.len()), from 0, over the rows of the first branch
RECURSIVE WidthOf(_, _)
WidthOf(width, rs) ==
    IF rs = <<>> THEN width ELSE WidthOf(Max(width, Len(Head(rs))), Tail(rs))

\* the else branch: all arguments form one row
SingleRow(values) == << [k \in 1..Len(values) |-> display(values[k].s)] >>

\* if row.len() < width { row.resize(width, Content::empty()) }
PadRow_none(row, width) == row

PadRow(row, width) ==
    IF Len(row) < width
    THEN [k \in 1..width |-> IF k <= Len(row) THEN row[k] ELSE Empty]
    ELSE row

\* the whole #[parse(...)] block of MatElem::rows
MatElemRows(values) ==
    LET branch == AnyArray(values)
        rs     == IF branch THEN ArrayRows(values) ELSE SingleRow(values)
        width  == IF branch THEN WidthOf(0, rs) ELSE 0
    IN  [i \in 1..Len(rs) |-> PadRow(rs[i], width)]

Values(scalars, maxLen) ==
    {ScalarValue(s) : s \in scalars} \cup
    {ArrayValue(a) : a \in SeqsUpTo(scalars, maxLen)}

ArgLists == SeqsUpTo(Values(Scalars, MaxRowLen), MaxArgs)

----------------------------------------------------------------------------
(* Delimiters *)

Delimiter == {"Paren", "Bracket", "Brace", "Bar", "DoubleBar"}

\* Delimiter::open
open_brace(d) == "{"

open(d) ==
    CASE d = "Paren"     -> "("
      [] d = "Bracket"   -> "["
      [] d = "Brace"     -> "{"
      [] d = "Bar"       -> "|"
      [] d = "DoubleBar" -> "||"

\* Delimiter::close
close(d) ==
    CASE d = "Paren"     -> ")"
      [] d = "Bracket"   -> "]"
      [] d = "Brace"     -> "}"
      [] d = "Bar"       -> "|"
      [] d = "DoubleBar" -> "||"

\* VecElem / MatElem::layout_math: delim.map(Delimiter::open), delim.map(Delimiter::close)
OptDelims(delim) ==
    [left  |-> IF delim = None THEN None ELSE open(delim),
     right |-> IF delim = None THEN None ELSE close(delim)]

\* CasesElem::layout_math: Some(delim.open()), None
CasesDelims_both(delim) == [left |-> open(delim), right |-> close(delim)]

CasesDelims(delim) == [left |-> open(delim), right |-> None]

----------------------------------------------------------------------------
(* The math context: styles and sizes *)

Styles == [size : {"display", "text", "script", "scriptscript"}, cramped : BOOLEAN]

\* MathStyle::for_denominator: one size down, cramped
for_denominator(st) ==
    [size    |-> CASE st.size = "display" -> "text"
                   [] st.size = "text"    -> "script"
                   [] OTHER               -> "scriptscript",
     cramped |-> TRUE]

\* length of half an em at the size of style st
HalfEm(st) ==
    CASE st.size \in {"display", "text"} -> 10
      [] st.size = "script"             -> 7
      [] OTHER                          -> 5

\* Em::scaled(ctx), for an Em counted in half ems
scaled(em, st) == em * HalfEm(st)

\* ctx.style(style): save the current style, switch to the new one
ctx_style(cur, stack, new) == [style |-> new, style_stack |-> Append(stack, cur)]

\* ctx.unstyle(): back to the style saved last
ctx_unstyle(cur, stack) ==
    [style |-> stack[Len(stack)], style_stack |-> SubSeq(stack, 1, Len(stack) - 1)]

----------------------------------------------------------------------------
(* Cells: ctx.layout_row and the laid-out rows *)

MathRow(a, d, segs) == [ascent |-> a, descent |-> d, segs |-> segs]

\* the row of an empty cell
ZeroRow == MathRow(0, 0, <<0>>)

\* what a non-empty cell can measure: segs are the widths between its
\* alignment points
Measures == {MathRow(2, 1, <<2>>), MathRow(1, 3, <<2, 4>>)}

\* ctx.layout_row(cell): Ok(row) or Err
LayoutRow(cell) ==
    IF cell = Empty
    THEN {[ok |-> TRUE, row |-> ZeroRow]}
    ELSE {[ok |-> TRUE, row |-> m] : m \in Measures} \cup {[ok |-> FALSE, row |-> ZeroRow]}

\* AlignmentResult of alignments(&col): per segment index the widest segment;
\* points are the running sums but the last, width the total
SegWidth(col, k) ==
    MaxOf(0, [i \in 1..Len(col) |-> IF k <= Len(col[i].segs) THEN col[i].segs[k] ELSE 0])

alignments(col) ==
    LET nseg == MaxOf(1, [i \in 1..Len(col) |-> Len(col[i].segs)])
        w    == [k \in 1..nseg |-> SegWidth(col, k)]
    IN  [points |-> [k \in 1..(nseg - 1) |-> SumSeq(SubSeq(w, 1, k))],
         width  |-> SumSeq(w)]

\* MathRow::into_aligned_frame: each segment starts at its alignment point
into_aligned_frame(row, points) ==
    LET n == Len(row.segs)
    IN  [width   |-> IF points = <<>> \/ n = 1
                     THEN SumSeq(row.segs)
                     ELSE points[n - 1] + row.segs[n],
         ascent  |-> row.ascent,
         descent |-> row.descent]

----------------------------------------------------------------------------
(* Frames *)

\* Frame::new(Size::zero()); baseline_x2 = 0 stands for "no baseline set"
ZeroFrame == [width |-> 0, height |-> 0, baseline_x2 |-> 0, items |-> <<>>,
              col_x |-> <<>>, col_w |-> <<>>]

Item(x, y, cell, r, c) ==
    [x |-> x, y |-> y, width |-> cell.width, height |-> cell.ascent + cell.descent,
     ascent |-> cell.ascent, row |-> r, col |-> c]

\* stack(ctx, rows, align, gap, 0): rows top to bottom, gap between them
RECURSIVE StackItems(_, _, _, _, _, _)
StackItems(cells, i, y, width, align, gap) ==
    IF i > Len(cells) THEN <<>>
    ELSE LET cell == cells[i]
             x    == IF align = "left" THEN 0 ELSE (width - cell.width) \div 2
         IN  <<Item(x, y, cell, i, 1)>> \o
             StackItems(cells, i + 1, y + cell.ascent + cell.descent + gap, width, align, gap)

stack(rws, align, gap) ==
    LET ar    == alignments(rws)
        cells == [i \in 1..Len(rws) |-> into_aligned_frame(rws[i], ar.points)]
        hs    == [i \in 1..Len(rws) |-> cells[i].ascent + cells[i].descent]
    IN  [width       |-> ar.width,
         height      |-> SumSeq(hs) + (IF Len(rws) = 0 THEN 0 ELSE Len(rws) - 1) * gap,
         baseline_x2 |-> IF Len(rws) = 0 THEN 0 ELSE 2 * cells[1].ascent,
         items       |-> StackItems(cells, 1, 0, ar.width, align, gap),
         col_x       |-> <<>>,
         col_w       |-> <<>>]

\* ascent.set_max(cell.ascent()); descent.set_max(cell.descent())
SetMaxHeights(h, r, cell) ==
    [h EXCEPT ![r] = [ascent  |-> Max(@.ascent, cell.ascent),
                      descent |-> Max(@.descent, cell.descent)]]

\* heights.iter().map(|&(a, b)| a + b).sum() + row_gap * (nrows - 1)
BodyHeight_trailing(hts, row_gap, nrows) ==
    SumSeq([i \in 1..Len(hts) |-> hts[i].ascent + hts[i].descent]) + row_gap * nrows

BodyHeight(hts, row_gap, nrows) ==
    SumSeq([i \in 1..Len(hts) |-> hts[i].ascent + hts[i].descent]) + row_gap * (nrows - 1)

\* y + ascent - cell.ascent()
CellY_top(y, ascent, cell) == y

CellY(y, ascent, cell) == y + ascent - cell.ascent

\* if points.is_empty() { x + (rcol - cell.width()) / 2.0 } else { x }
CellX(x, rcol, points, cell) ==
    IF points = <<>> THEN x + (rcol - cell.width) \div 2 ELSE x

\* the inner loop: the cells of column c, top to bottom
RECURSIVE ColItems(_, _, _, _, _, _, _, _)
ColItems(col, hts, ar, c, i, x, y, row_gap) ==
    IF i > Len(col) \/ i > Len(hts) THEN <<>>
    ELSE LET cell == into_aligned_frame(col[i], ar.points)
             pos  == [x |-> CellX(x, ar.width, ar.points, cell),
                      y |-> CellY(y, hts[i].ascent, cell)]
         IN  <<Item(pos.x, pos.y, cell, i, c)>> \o
             ColItems(col, hts, ar, c, i + 1, x,
                      y + hts[i].ascent + hts[i].descent + row_gap, row_gap)

\* x += rcol + col_gap
NextX_nogap(x, rcol, col_gap) == x + rcol

NextX(x, rcol, col_gap) == x + rcol + col_gap

\* the outer loop: the columns left to right; acc collects the frame's items
\* and, for each column, the x it starts at and its width
RECURSIVE PlaceCols(_, _, _, _, _, _, _)
PlaceCols(cs, hts, c, x, row_gap, col_gap, acc) ==
    IF c > Len(cs) THEN [x |-> x, items |-> acc.items, col_x |-> acc.col_x, col_w |-> acc.col_w]
    ELSE LET ar == alignments(cs[c])
         IN  PlaceCols(cs, hts, c + 1, NextX(x, ar.width, col_gap), row_gap, col_gap,
                       [items |-> acc.items \o ColItems(cs[c], hts, ar, c, 1, x, 0, row_gap),
                        col_x |-> Append(acc.col_x, x),
                        col_w |-> Append(acc.col_w, ar.width)])

\* frame.size_mut().x = x - col_gap
BodyWidth_trailing(x, col_gap) == x

BodyWidth(x, col_gap) == x - col_gap

\* layout_mat_body after the cells are laid out (lines 259-280)
MatFrame(cs, hts, nrows, row_gap, col_gap) ==
    LET placed == PlaceCols(cs, hts, 1, 0, row_gap, col_gap,
                            [items |-> <<>>, col_x |-> <<>>, col_w |-> <<>>])
    IN  [width       |-> BodyWidth(placed.x, col_gap),
         height      |-> BodyHeight(hts, row_gap, nrows),
         baseline_x2 |-> 0,
         items       |-> placed.items,
         col_x       |-> placed.col_x,
         col_w       |-> placed.col_w]

----------------------------------------------------------------------------
(* layout_delimiters *)

\* GlyphFragment::new(ctx, c, span).stretch_vertical(ctx, target, short_fall),
\* centered on the axis
Glyph(c, target_x10, st) ==
    [kind |-> "glyph", c |-> c, target_x10 |-> target_x10,
     short_fall_x10 |-> 2 * HalfEm(st), frame |-> ZeroFrame]

\* FrameFragment::new(ctx, frame)
FrameFragment(frame) ==
    [kind |-> "frame", c |-> "", target_x10 |-> 0, short_fall_x10 |-> 0, frame |-> frame]

layout_delimiters_swapped(frags, frame, left, right, st) ==
    LET target_x10 == 10 * frame.height + VERTICAL_PADDING * frame.height
        based      == [frame EXCEPT !.baseline_x2 = frame.height + HalfEm(st)]
    IN  frags \o <<FrameFragment(based)>>
              \o (IF left = None THEN <<>> ELSE <<Glyph(left, target_x10, st)>>)
              \o (IF right = None THEN <<>> ELSE <<Glyph(right, target_x10, st)>>)

\* the fragments after layout_delimiters(ctx, frame, left, right, span);
\* the axis height is taken as a quarter em
layout_delimiters(frags, frame, left, right, st) ==
    LET target_x10 == 10 * frame.height + VERTICAL_PADDING * frame.height
        based      == [frame EXCEPT !.baseline_x2 = frame.height + HalfEm(st)]
    IN  frags \o (IF left = None THEN <<>> ELSE <<Glyph(left, target_x10, st)>>)
              \o <<FrameFragment(based)>>
              \o (IF right = None THEN <<>> ELSE <<Glyph(right, target_x10, st)>>)

----------------------------------------------------------------------------
(* State *)

NoResult == [tag |-> "none", row |-> 0, col |-> 0]

NoElem == [kind |-> "none", delim |-> None, children |-> <<>>, rows |-> <<>>]

\* a fragment the caller pushed before the element
Prior == Glyph("=", 0, [size |-> "text", cramped |-> FALSE])

InitStyles == {[size |-> s, cramped |-> FALSE] : s \in {"display", "text", "script"}}

Text == display("1")

\* the children of a vector or a case distinction
Columns == SeqsUpTo({Text, Empty}, MaxLen)

\* the arguments of a matrix whose cells are laid out
MatArgLists == SeqsUpTo(Values({"1"}, MaxRowLen), MaxArgs)

InitLayout ==
    /\ pc = "idle"
    /\ elem = NoElem
    /\ style_stack = <<>>
    /\ gaps = [row |-> 0, col |-> 0]
    /\ flat = <<>>
    /\ cols = <<>>
    /\ heights = <<>>
    /\ laid = <<>>
    /\ result = NoResult
    /\ entry = [style |-> style, style_stack |-> style_stack, fragments |-> fragments]

Init ==
    /\ style \in InitStyles
    /\ fragments \in {<<>>, <<Prior>>}
    /\ InitLayout
    /\ args = <<>>
    /\ rows = <<>>
    /\ built = FALSE

InitCtor ==
    /\ style = [size |-> "text", cramped |-> FALSE]
    /\ fragments = <<>>
    /\ InitLayout
    /\ args \in ArgLists
    /\ rows = <<>>
    /\ built = FALSE

----------------------------------------------------------------------------
(* MatElem construction *)

\* the element's constructor runs the `rows` parser on the arguments
MatElemNew ==
    /\ ~built
    /\ rows' = MatElemRows(args)
    /\ built' = TRUE
    /\ UNCHANGED <<args, layoutVars>>

----------------------------------------------------------------------------
(* VecElem::layout_math, CasesElem::layout_math, layout_vec_body *)

\* entry of layout_vec_body: the gap, then ctx.style(ctx.style.for_denominator())
EnterVecBody(kind, children, delim) ==
    LET pushed == ctx_style(style, style_stack, for_denominator(style))
    IN  /\ pc = "idle"
        /\ pc' = "vec_body"
        /\ elem' = [kind |-> kind, delim |-> delim, children |-> children, rows |-> <<>>]
        /\ entry' = [style |-> style, style_stack |-> style_stack, fragments |-> fragments]
        /\ gaps' = [row |-> scaled(ROW_GAP, style), col |-> 0]
        /\ style' = pushed.style
        /\ style_stack' = pushed.style_stack
        /\ flat' = <<>>
        /\ UNCHANGED <<fragments, cols, heights, laid, result, ctorVars>>

VecCall(children, delim) == EnterVecBody("vec", children, delim)

CasesCall(children, delim) == EnterVecBody("cases", children, delim)

\* a variant of the loop body that skips a failing child instead of returning
VecLayoutRow_swallow(out) ==
    LET i == Len(laid) + 1
    IN  /\ pc = "vec_body"
        /\ i <= Len(elem.children)
        /\ out \in LayoutRow(elem.children[i])
        /\ laid' = Append(laid, [row |-> i, col |-> 1, ok |-> out.ok])
        /\ flat' = Append(flat, out.row)
        /\ UNCHANGED <<pc, result, elem, style, style_stack, fragments, gaps, cols,
                       heights, entry, ctorVars>>

\* one turn of the loop: flat.push(ctx.layout_row(child)?)
VecLayoutRow(out) ==
    LET i == Len(laid) + 1
    IN  /\ pc = "vec_body"
        /\ i <= Len(elem.children)
        /\ out \in LayoutRow(elem.children[i])
        /\ laid' = Append(laid, [row |-> i, col |-> 1, ok |-> out.ok])
        /\ IF out.ok
           THEN /\ flat' = Append(flat, out.row)
                /\ UNCHANGED <<pc, result>>
           ELSE /\ pc' = "done"
                /\ result' = [tag |-> "err", row |-> i, col |-> 1]
                /\ UNCHANGED flat
        /\ UNCHANGED <<elem, style, style_stack, fragments, gaps, cols, heights,
                       entry, ctorVars>>

\* after the loop: ctx.unstyle(), stack(...), then layout_delimiters
VecFinish ==
    LET un     == ctx_unstyle(style, style_stack)
        align  == IF elem.kind = "vec" THEN "center" ELSE "left"
        frame  == stack(flat, align, gaps.row)
        delims == IF elem.kind = "vec" THEN OptDelims(elem.delim)
                                       ELSE CasesDelims(elem.delim)
    IN  /\ pc = "vec_body"
        /\ Len(laid) = Len(elem.children)
        /\ style' = un.style
        /\ style_stack' = un.style_stack
        /\ fragments' = layout_delimiters(fragments, frame, delims.left, delims.right,
                                          un.style)
        /\ pc' = "done"
        /\ result' = [tag |-> "ok", row |-> 0, col |-> 0]
        /\ UNCHANGED <<elem, gaps, flat, cols, heights, laid, entry, ctorVars>>

----------------------------------------------------------------------------
(* MatElem::layout_math, layout_mat_body *)

NCols(rws) == IF rws = <<>> THEN 0 ELSE Len(rws[1])

\* MatElem::layout_math up to the first cell: the element is built from its
\* arguments; an empty matrix is wrapped at once, otherwise the style is
\* pushed and the loop starts
MatCall(a, delim) ==
    LET rws    == MatElemRows(a)
        nrows  == Len(rws)
        ncols  == NCols(rws)
        delims == OptDelims(delim)
        pushed == ctx_style(style, style_stack, for_denominator(style))
    IN  /\ pc = "idle"
        /\ elem' = [kind |-> "mat", delim |-> delim, children |-> <<>>, rows |-> rws]
        /\ entry' = [style |-> style, style_stack |-> style_stack, fragments |-> fragments]
        /\ gaps' = [row |-> scaled(ROW_GAP, style), col |-> scaled(COL_GAP, style)]
        /\ IF ncols = 0 \/ nrows = 0
           THEN /\ fragments' = layout_delimiters(fragments, ZeroFrame, delims.left,
                                                  delims.right, style)
                /\ pc' = "done"
                /\ result' = [tag |-> "ok", row |-> 0, col |-> 0]
                /\ UNCHANGED <<style, style_stack, cols, heights>>
           ELSE /\ heights' = [i \in 1..nrows |-> [ascent |-> 0, descent |-> 0]]
                /\ cols' = [c \in 1..ncols |-> <<>>]
                /\ style' = pushed.style
                /\ style_stack' = pushed.style_stack
                /\ pc' = "mat_body"
                /\ UNCHANGED <<fragments, result>>
        /\ UNCHANGED <<flat, laid, ctorVars>>

\* one turn of the nested loops (row-major): ctx.layout_row(cell)?, the row's
\* heights, col.push(cell)
MatLayoutRow(out) ==
    LET ncols == NCols(elem.rows)
        k     == Len(laid)
        r     == (k \div ncols) + 1
        c     == (k % ncols) + 1
    IN  /\ pc = "mat_body"
        /\ k < Len(elem.rows) * ncols
        /\ out \in LayoutRow(elem.rows[r][c])
        /\ laid' = Append(laid, [row |-> r, col |-> c, ok |-> out.ok])
        /\ IF out.ok
           THEN /\ heights' = SetMaxHeights(heights, r, out.row)
                /\ cols' = [cols EXCEPT ![c] = Append(@, out.row)]
                /\ UNCHANGED <<pc, result>>
           ELSE /\ pc' = "done"
                /\ result' = [tag |-> "err", row |-> r, col |-> c]
                /\ UNCHANGED <<heights, cols>>
        /\ UNCHANGED <<elem, style, style_stack, fragments, gaps, flat, entry, ctorVars>>

\* after the loops: ctx.unstyle(), the frame, then layout_delimiters
MatFinish ==
    LET un     == ctx_unstyle(style, style_stack)
        frame  == MatFrame(cols, heights, Len(elem.rows), gaps.row, gaps.col)
        delims == OptDelims(elem.delim)
    IN  /\ pc = "mat_body"
        /\ Len(laid) = Len(elem.rows) * NCols(elem.rows)
        /\ style' = un.style
        /\ style_stack' = un.style_stack
        /\ fragments' = layout_delimiters(fragments, frame, delims.left, delims.right,
                                          un.style)
        /\ pc' = "done"
        /\ result' = [tag |-> "ok", row |-> 0, col |-> 0]
        /\ UNCHANGED <<elem, gaps, flat, cols, heights, laid, entry, ctorVars>>

----------------------------------------------------------------------------
(* Specifications *)

OptDelimiter == Delimiter \cup {None}

Outcomes == {[ok |-> TRUE, row |-> m] : m \in Measures \cup {ZeroRow}} \cup
            {[ok |-> FALSE, row |-> ZeroRow]}

Next ==
    \/ \E ch \in Columns, d \in OptDelimiter : VecCall(ch, d)
    \/ \E ch \in Columns, d \in Delimiter : CasesCall(ch, d)
    \/ \E a \in MatArgLists, d \in OptDelimiter : MatCall(a, d)
    \/ \E out \in Outcomes : VecLayoutRow(out)
    \/ VecFinish
    \/ \E out \in Outcomes : MatLayoutRow(out)
    \/ MatFinish

Spec == Init /\ [][Next]_vars

NextCtor == MatElemNew

SpecCtor == InitCtor /\ [][NextCtor]_vars

----------------------------------------------------------------------------
(* Vocabulary of the properties *)

Returned == pc = "done"

Succeeded == pc = "done" /\ result.tag = "ok"

Failed == pc = "done" /\ result.tag = "err"

\* the fragments pushed since the call
NewFragments == SubSeq(fragments, Len(entry.fragments) + 1, Len(fragments))

Kinds(frags) == [k \in 1..Len(frags) |-> frags[k].kind]

\* the body frame among the pushed fragments
BodyFrame ==
    NewFragments[CHOOSE k \in 1..Len(NewFragments) : NewFragments[k].kind = "frame"].frame

\* half an em at the size the caller had
CallerGap == HalfEm(entry.style)

\* a matrix row's ascent and descent: the largest among its laid-out cells
RowAscent(i) == MaxOf(cols[1][i].ascent, [c \in 1..Len(cols) |-> cols[c][i].ascent])

RowDescent(i) == MaxOf(cols[1][i].descent, [c \in 1..Len(cols) |-> cols[c][i].descent])

\* the top of row i's band
RowTop(i) == SumSeq([k \in 1..(i - 1) |-> RowAscent(k) + RowDescent(k) + CallerGap])

MatDone == Succeeded /\ elem.kind = "mat"

GridDone == MatDone /\ Len(elem.rows) >= 1 /\ NCols(elem.rows) >= 1

----------------------------------------------------------------------------
(* C1 *)

\* C1: on every exit path of layout_vec_body and layout_mat_body, the failing
\* ones included, the style and the style stack are those of the call's entry.
C1_StyleRestoredOnEveryExit ==
    Returned => (style = entry.style /\ style_stack = entry.style_stack)

----------------------------------------------------------------------------
(* C2, C3: MatElem construction *)

HasArray == \E i \in 1..Len(args) : args[i].isArray

\* the rows the arguments denote, before padding
InputRows ==
    IF HasArray
    THEN [i \in 1..Len(args) |-> IF args[i].isArray THEN args[i].items ELSE <<args[i].s>>]
    ELSE << [k \in 1..Len(args) |-> args[k].s] >>

InputWidth == MaxOf(0, [i \in 1..Len(InputRows) |-> Len(InputRows[i])])

\* C2: the constructed rows all have the length of the longest input row; each
\* keeps its input cells in order as a prefix and is filled up on the right
\* with empty content.
C2_RowsPaddedToLongest ==
    built =>
        /\ Len(rows) = Len(InputRows)
        /\ \A i \in 1..Len(rows) :
              /\ Len(rows[i]) = InputWidth
              /\ \A k \in 1..Len(rows[i]) :
                    rows[i][k] = IF k <= Len(InputRows[i])
                                 THEN (IF InputRows[i][k] = "none" THEN [text |-> ""]
                                       ELSE [text |-> InputRows[i][k]])
                                 ELSE [text |-> ""]

\* two arrays of different lengths, one of them empty: the empty one is padded
C2_Witness ==
    /\ built
    /\ Len(args) = 2
    /\ args[1] = ArrayValue(<<>>)
    /\ args[2] = ArrayValue(<<"1", "2">>)
    /\ rows = << <<Empty, Empty>>, <<[text |-> "1"], [text |-> "2"]>> >>

----------------------------------------------------------------------------
(* C4, C9: case distinctions *)

CasesDone == Succeeded /\ elem.kind = "cases"

\* C4 as stated: whatever the configured delimiter, the left glyph of a case
\* distinction is the brace.
C4_CasesLeftGlyphIsBrace ==
    CasesDone => NewFragments[1].c = "{"

\* C4, amended: the left glyph of a case distinction is the opening character
\* of the configured delimiter; it is the brace exactly when that is Brace.
C4_CasesLeftGlyphIsConfiguredOpen ==
    CasesDone =>
        /\ NewFragments[1].kind = "glyph"
        /\ NewFragments[1].c = (CASE elem.delim = "Paren"     -> "("
                                  [] elem.delim = "Bracket"   -> "["
                                  [] elem.delim = "Brace"     -> "{"
                                  [] elem.delim = "Bar"       -> "|"
                                  [] elem.delim = "DoubleBar" -> "||")
        /\ (NewFragments[1].c = "{" <=> elem.delim = "Brace")

\* a case distinction with brackets configured has laid out its branches
C4_Witness ==
    /\ CasesDone
    /\ elem.delim = "Bracket"
    /\ Len(elem.children) = 2
    /\ NewFragments[1].c = "["

\* C9: a successful Cases layout pushes exactly one glyph, before the body
\* frame, and nothing after the frame.
C9_CasesOneGlyphBeforeBody ==
    CasesDone => Kinds(NewFragments) = <<"glyph", "frame">>

\* a case distinction without branches, with bars configured
C9_Witness ==
    /\ CasesDone
    /\ elem.children = <<>>
    /\ elem.delim = "Bar"
    /\ Len(NewFragments) = 2

----------------------------------------------------------------------------
(* C5: failure *)

\* C5: a failing cell is the last one laid out, cells are laid out in
\* iteration order, the call returns the failure of that cell and the
\* caller's fragments are untouched.
C5_FailureAbortsLayout ==
    /\ \A k \in 1..Len(laid) :
          /\ (k < Len(laid) => laid[k].ok)
          /\ IF elem.kind = "mat"
             THEN /\ laid[k].row = ((k - 1) \div NCols(elem.rows)) + 1
                  /\ laid[k].col = ((k - 1) % NCols(elem.rows)) + 1
             ELSE laid[k].row = k /\ laid[k].col = 1
    /\ (laid # <<>> /\ ~laid[Len(laid)].ok) =>
          /\ Failed
          /\ result.row = laid[Len(laid)].row
          /\ result.col = laid[Len(laid)].col
          /\ fragments = entry.fragments
    /\ Failed => (laid # <<>> /\ ~laid[Len(laid)].ok)

\* the second cell of a 2 x 2 matrix failed: two cells remain
C5_Witness ==
    /\ Failed
    /\ elem.kind = "mat"
    /\ Len(elem.rows) = 2
    /\ NCols(elem.rows) = 2
    /\ Len(laid) = 2
    /\ fragments = <<Prior>>

----------------------------------------------------------------------------
(* C6, C7, C10: the matrix body *)

\* C6: a matrix without rows or without columns has a zero-size body and no
\* cell is laid out; otherwise the body's height is the sum of the rows'
\* ascent + descent plus half an em for each of the n - 1 gaps.
C6_MatBodyHeight ==
    MatDone =>
        LET n == Len(elem.rows)
            m == NCols(elem.rows)
        IN  IF n = 0 \/ m = 0
            THEN BodyFrame.width = 0 /\ BodyFrame.height = 0 /\ laid = <<>>
            ELSE /\ Len(laid) = n * m
                 /\ BodyFrame.height =
                       SumSeq([i \in 1..n |-> RowAscent(i) + RowDescent(i)])
                       + CallerGap * (n - 1)

\* a 2 x 2 matrix whose first row takes its ascent from one cell and its
\* descent from the other
C6_Witness ==
    /\ MatDone
    /\ Len(elem.rows) = 2
    /\ NCols(elem.rows) = 2
    /\ cols[1][1] = MathRow(2, 1, <<2>>)
    /\ cols[2][1] = MathRow(1, 3, <<2, 4>>)
    /\ BodyFrame.height > RowAscent(1) + RowDescent(1) + RowAscent(2) + RowDescent(2)

\* C7: column j starts at the widths of the columns before it plus half an em
\* for each of them; the body's width is the sum of the column widths plus
\* half an em for each of the m - 1 gaps; a column's width is the one the
\* column aligner returns for its cells.
C7_MatBodyWidth ==
    GridDone =>
        LET m == NCols(elem.rows)
            f == BodyFrame
        IN  /\ Len(f.col_x) = m
            /\ Len(f.col_w) = m
            /\ \A j \in 1..m :
                  /\ f.col_w[j] = alignments(cols[j]).width
                  /\ f.col_x[j] = SumSeq(SubSeq(f.col_w, 1, j - 1)) + CallerGap * (j - 1)
                  /\ \A k \in 1..Len(f.items) :
                        f.items[k].col = j =>
                           /\ f.items[k].x >= f.col_x[j]
                           /\ f.items[k].x + f.items[k].width <= f.col_x[j] + f.col_w[j]
            /\ \A k \in 1..(Len(f.items) - 1) : f.items[k].col <= f.items[k + 1].col
            /\ f.width = SumSeq(f.col_w) + CallerGap * (m - 1)

\* a matrix of two columns of different widths
C7_Witness ==
    /\ GridDone
    /\ NCols(elem.rows) = 2
    /\ BodyFrame.col_w = <<6, 2>>
    /\ BodyFrame.col_x[2] = 6 + CallerGap
    /\ BodyFrame.width = 8 + CallerGap

\* C10: the cell of row i is placed at the top of the row's band plus the
\* row's ascent minus its own, so the baselines of a row agree; each cell lies
\* within its row's band, the bands follow each other without overlap and the
\* last one ends at the body's height.
C10_CellsOnRowBaseline ==
    GridDone =>
        LET n == Len(elem.rows)
            m == NCols(elem.rows)
            f == BodyFrame
        IN  /\ Len(f.items) = n * m
            /\ \A i \in 1..n, j \in 1..m :
                  \E k \in 1..Len(f.items) : f.items[k].row = i /\ f.items[k].col = j
            /\ \A k \in 1..Len(f.items) :
                  LET it == f.items[k]
                      i  == it.row
                  IN  /\ it.ascent = cols[it.col][i].ascent
                      /\ it.y = RowTop(i) + RowAscent(i) - it.ascent
                      /\ RowTop(i) <= it.y
                      /\ it.y + it.height <= RowTop(i) + RowAscent(i) + RowDescent(i)
            /\ \A i \in 1..(n - 1) :
                  RowTop(i) + RowAscent(i) + RowDescent(i) <= RowTop(i + 1)
            /\ RowTop(n) + RowAscent(n) + RowDescent(n) = f.height

\* a cell of the second row whose ascent is smaller than its row's, so it
\* sits below the top of its band
C10_Witness ==
    /\ GridDone
    /\ Len(elem.rows) = 2
    /\ NCols(elem.rows) = 2
    /\ \E k \in 1..Len(BodyFrame.items) :
          /\ BodyFrame.items[k].row = 2
          /\ BodyFrame.items[k].ascent < RowAscent(2)
          /\ BodyFrame.items[k].y > RowTop(2)

----------------------------------------------------------------------------
(* C8: layout_delimiters *)

\* C8: a successful layout pushes the left glyph if there is a left
\* character, then the body frame once, then the right glyph if there is a
\* right character; without a delimiter a vector or matrix pushes the body
\* frame alone.
C8_FragmentsInOrder ==
    Succeeded =>
        LET left  == IF elem.delim = None THEN None ELSE open(elem.delim)
            right == IF elem.delim = None \/ elem.kind = "cases" THEN None
                     ELSE close(elem.delim)
            new   == NewFragments
        IN  /\ SubSeq(fragments, 1, Len(entry.fragments)) = entry.fragments
            /\ Kinds(new) = (IF left = None THEN <<>> ELSE <<"glyph">>)
                            \o <<"frame">>
                            \o (IF right = None THEN <<>> ELSE <<"glyph">>)
            /\ (left # None => new[1].c = left)
            /\ (right # None => new[Len(new)].c = right)
            /\ (elem.kind \in {"vec", "mat"} /\ elem.delim = None => Len(new) = 1)

\* a vector of two cells in brackets: glyph, frame, glyph
C8_Witness ==
    /\ Succeeded
    /\ elem.kind = "vec"
    /\ elem.delim = "Bracket"
    /\ Len(elem.children) = 2
    /\ Len(NewFragments) = 3
    /\ NewFragments[1].c = "["
    /\ NewFragments[3].c = "]"

====
